---- MODULE Spec2Model ----
(***************************************************************************)
(* Model of the immersive orbit navigation of src/main.js: the spherical   *)
(* orbit state, the per-frame XR update (gamepads, pinch gestures), the    *)
(* clamp-and-project step and the render loop that switches between the    *)
(* desktop OrbitControls and the XR rig.                                    *)
(*                                                                         *)
(* Numbers.  JavaScript doubles are modelled in fixed point:               *)
(*   - spherical.radius / phi / theta : units of 10^-7 (m or rad);         *)
(*   - positions (camera, rig, hands, pivot) : millimetres;                *)
(*   - gamepad axes : hundredths (axis 1.0 = 100);                         *)
(*   - times : milliseconds;                                               *)
(*   - sines and cosines : ten-thousandths.                                *)
(* With these units every product of the per-frame update is an exact      *)
(* integer; only the trigonometric conversions round.                      *)
(***************************************************************************)
EXTENDS Integers, Sequences, FiniteSets, TLC

\* ------------------------------------------------------------------ units
OrbitUnit == 10^7          \* spherical fields per metre / per radian
TrigUnit  == 10^4          \* sine / cosine values per 1.0; angles per radian in Sin/Cos
MmPerM    == 10^3          \* position units per metre
AxisUnit  == 10^2          \* gamepad axis units per 1.0

\* ------------------------------------------------------------ arithmetic
Abs(a) == IF a < 0 THEN -a ELSE a

Sgn(a) == IF a < 0 THEN -1 ELSE 1

\* division rounding to nearest, symmetric about zero (b > 0)
RDiv(a, b) == Sgn(a) * ((2 * Abs(a) + b) \div (2 * b))

\* Math.min
Min(a, b) == IF a < b THEN a ELSE b

\* THREE.MathUtils.clamp(value, min, max) = Math.max(min, Math.min(max, value))
Clamp(value, lo, hi) == IF Min(hi, value) < lo THEN lo ELSE Min(hi, value)

RECURSIVE SqrtIter(_, _, _)
SqrtIter(n, lo, hi) ==
    IF lo >= hi THEN lo
    ELSE LET mid == (lo + hi + 1) \div 2
         IN  IF mid * mid <= n THEN SqrtIter(n, mid, hi) ELSE SqrtIter(n, lo, mid - 1)

\* Math.sqrt on a non-negative integer, rounded to nearest
Sqrt(n) ==
    LET f == SqrtIter(n, 0, 46340)
    IN  IF n - f * f > f THEN f + 1 ELSE f

\* pi and pi/2 in TrigUnit
PiT     == 31416
HalfPiT == 15708

\* sine of x (TrigUnit radians, |x| <= pi/2) by its Taylor series to x^9
SinSeries(x) ==
    LET x2 == RDiv(x * x, TrigUnit)
        t3 == RDiv(RDiv(x * x2, TrigUnit), 6)
        t5 == RDiv(RDiv(t3 * x2, TrigUnit), 20)
        t7 == RDiv(RDiv(t5 * x2, TrigUnit), 42)
        t9 == RDiv(RDiv(t7 * x2, TrigUnit), 72)
    IN  x - t3 + t5 - t7 + t9

\* Math.sin : x in TrigUnit radians, result in TrigUnit
Sin(x) ==
    LET r == ((x + PiT) % (2 * PiT)) - PiT            \* into [-pi, pi)
        f == IF r > HalfPiT THEN PiT - r
             ELSE IF r < -HalfPiT THEN -PiT - r
             ELSE r
    IN  Clamp(SinSeries(f), -TrigUnit, TrigUnit)

\* Math.cos
Cos(x) == Sin(x + HalfPiT)

RECURSIVE AcosIter(_, _, _)
AcosIter(c, lo, hi) ==
    IF hi - lo <= 1
    THEN IF Abs(Cos(lo) - c) <= Abs(Cos(hi) - c) THEN lo ELSE hi
    ELSE LET mid == (lo + hi) \div 2
         IN  IF Cos(mid) >= c THEN AcosIter(c, mid, hi) ELSE AcosIter(c, lo, mid)

\* Math.acos : c in TrigUnit, result in TrigUnit radians, in [0, pi]
Acos(c) ==
    IF c >= TrigUnit THEN 0
    ELSE IF c <= -TrigUnit THEN PiT
    ELSE AcosIter(c, 0, PiT)

\* Math.atan2(y, x) for a direction given in millimetres, TrigUnit radians
Atan2(y, x) ==
    LET h == Sqrt(x * x + y * y)
    IN  IF h = 0 THEN 0
        ELSE IF y >= 0 THEN Acos(RDiv(x * TrigUnit, h))
        ELSE -Acos(RDiv(x * TrigUnit, h))

\* --------------------------------------------------------------- vectors
\* new THREE.Vector3()
ZeroVec == <<0, 0, 0>>

\* Vector3.subVectors(a, b)
SubVectors(a, b) == <<a[1] - b[1], a[2] - b[2], a[3] - b[3]>>

\* Vector3.add / addVectors
AddVectors(a, b) == <<a[1] + b[1], a[2] + b[2], a[3] + b[3]>>

\* --------------------------------------------------- program constants
\* const target = new THREE.Vector3(-1, 2, 0)  (mm)
target == <<-1000, 2000, 0>>

\* camera.position.set(-5, 5, 12)  (mm)
CameraLoadPosition == <<-5000, 5000, 12000>>

\* XR_NAV.orbitSpeed = 1.4 rad/s, in tenths
orbitSpeedTenths == 14

\* XR_NAV.dollySpeed = 3.0 m/s
dollySpeed == 3

\* XR_NAV.minRadius = 1.5
minRadius == 15 * (OrbitUnit \div 10)

\* XR_NAV.maxRadius = 50
maxRadius == 50 * OrbitUnit

\* XR_NAV.minPhi = 0.01
minPhi == OrbitUnit \div 100

\* XR_NAV.maxPhi = Math.PI - 0.01 = 3.1315926535...
maxPhi == 31315926

\* the cap of Math.min(0.05, (now - lastT) / 1000), in ms
dtCapMs == 50

\* ------------------------------------------------------ THREE.Spherical
\* Spherical.setFromVector3(v): radius = |v|, theta = atan2(x, z),
\* phi = acos(clamp(y / radius, -1, 1)); a zero vector gives theta = phi = 0
SetFromVector3(v) ==
    LET r == Sqrt(v[1] * v[1] + v[2] * v[2] + v[3] * v[3])
    IN  IF r = 0
        THEN [radius |-> 0, phi |-> 0, theta |-> 0]
        ELSE [radius |-> r * (OrbitUnit \div MmPerM),
              phi    |-> Acos(Clamp(RDiv(v[2] * TrigUnit, r), -TrigUnit, TrigUnit))
                            * (OrbitUnit \div TrigUnit),
              theta  |-> Atan2(v[1], v[3]) * (OrbitUnit \div TrigUnit)]

\* Vector3.setFromSpherical(s): x = r sin(phi) sin(theta), y = r cos(phi),
\* z = r sin(phi) cos(theta)  (mm)
SetFromSpherical(s) ==
    LET r     == RDiv(s.radius, OrbitUnit \div MmPerM)
        phiT  == RDiv(s.phi,   OrbitUnit \div TrigUnit)
        thT   == RDiv(s.theta, OrbitUnit \div TrigUnit)
        sinPhiRadius == RDiv(Sin(phiT) * r, TrigUnit)
    IN  << RDiv(sinPhiRadius * Sin(thT), TrigUnit),
           RDiv(Cos(phiT) * r, TrigUnit),
           RDiv(sinPhiRadius * Cos(thT), TrigUnit) >>

\* mutant of syncSpherical: the pivot is not subtracted
syncSphericalFromOrigin(cameraPosition) == SetFromVector3(cameraPosition)

\* (function syncSpherical() { offset = camera.position - target;
\*                             spherical.setFromVector3(offset) })()
syncSpherical(cameraPosition) == SetFromVector3(SubVectors(cameraPosition, target))

\* mutant of ClampSpherical: the phi clamp is left out
ClampSphericalRadiusOnly(s) ==
    [s EXCEPT !.radius = Clamp(s.radius, minRadius, maxRadius)]

\* the two clamps of applySphericalToRig
ClampSpherical(s) ==
    [s EXCEPT !.radius = Clamp(s.radius, minRadius, maxRadius),
              !.phi    = Clamp(s.phi, minPhi, maxPhi)]

\* pos = new Vector3().setFromSpherical(spherical).add(target)
RigPositionOf(s) == AddVectors(SetFromSpherical(s), target)

\* applySphericalToRig(): clamp spherical, then write rig.position and
\* orient the rig toward target
applySphericalToRig(s) ==
    LET c == ClampSpherical(s)
    IN  [spherical |-> c,
         rig       |-> [position |-> RigPositionOf(c), lookAt |-> target]]

\* Object3D.lookAt(target) of a non-camera object at `position`: the columns
\* of its rotation (TrigUnit), z toward the target, x = up x z, y = z x x
LookAtBasis(position, at) ==
    LET d  == SubVectors(at, position)
        dl == Sqrt(d[1] * d[1] + d[2] * d[2] + d[3] * d[3])
        z  == IF dl = 0 THEN <<0, 0, TrigUnit>>
              ELSE << RDiv(d[1] * TrigUnit, dl), RDiv(d[2] * TrigUnit, dl),
                      RDiv(d[3] * TrigUnit, dl) >>
        xl == Sqrt(z[3] * z[3] + z[1] * z[1])
        x  == IF xl = 0 THEN <<TrigUnit, 0, 0>>
              ELSE << RDiv(z[3] * TrigUnit, xl), 0, RDiv(-z[1] * TrigUnit, xl) >>
        y  == << RDiv(z[2] * x[3] - z[3] * x[2], TrigUnit),
                 RDiv(z[3] * x[1] - z[1] * x[3], TrigUnit),
                 RDiv(z[1] * x[2] - z[2] * x[1], TrigUnit) >>
    IN  <<x, y, z>>

\* camera.getWorldPosition(): the camera is a child of the rig (rig.add(camera)),
\* the rig a child of the scene
CameraWorldPosition(r, cam) ==
    IF r.lookAt = <<>> THEN AddVectors(r.position, cam)
    ELSE LET b == LookAtBasis(r.position, r.lookAt)
         IN  AddVectors(r.position,
                 << RDiv(cam[1] * b[1][1] + cam[2] * b[2][1] + cam[3] * b[3][1], TrigUnit),
                    RDiv(cam[1] * b[1][2] + cam[2] * b[2][2] + cam[3] * b[3][2], TrigUnit),
                    RDiv(cam[1] * b[1][3] + cam[2] * b[2][3] + cam[3] * b[3][3], TrigUnit) >>)

\* ------------------------------------------------------- model bounds
\* frame callbacks explored per behaviour
MaxFrames == 2

\* tolerance (mm) of the fixed-point trigonometry when positions are compared
TolMm == 2

\* ------------------------------------------------- environment inputs
\* milliseconds between two frame callbacks (performance.now() is monotonic)
FrameGaps == {16, 1000}

\* an XRInputSource: gamepad === null/undefined, or a gamepad with its axes
NoGamepad == [hasGamepad |-> FALSE, axes |-> <<>>]

Gamepad(axes) == [hasGamepad |-> TRUE, axes |-> axes]

\* session.inputSources, in enumeration order
InputSourceLists ==
    { <<>>,
      <<Gamepad(<<5, -5>>)>>,                        \* two axes, stick noise
      <<Gamepad(<<0, 100>>)>>,                       \* two axes, axes[1] pushed
      <<Gamepad(<<0, -100, 0, 0>>)>>,                \* four axes, axes[1] only
      <<Gamepad(<<0, 0, 100, -100>>), NoGamepad, Gamepad(<<0, 100, -50, 0>>)>> }

\* world positions (mm) of the left and right hand in one frame
HandPoses ==
    { << <<0, 0, 0>>,          <<0, 0, 0>> >>,
      << <<100, 1200, -1300>>, <<-50, -1300, -1300>> >> }

\* head pose (mm, in the rig's reference space) the XR renderer writes to
\* the camera while presenting
HeadPoses == { <<0, 1600, 0>> }

\* camera positions the pointer drags since the last controls.update() ask
\* for; NoDrag when there was none
DragPositions == { <<2000, 2000, 4000>>, <<-1000, 2000, 1000>> }

NoDrag == <<>>

NoLookAt == <<>>

\* ---------------------------------------------------------------- state
VARIABLES
    presenting,       \* renderer.xr.isPresenting
    spherical,        \* let spherical = new THREE.Spherical()
    rig,              \* rig.position and what rig.lookAt was last given
    cameraPosition,   \* camera.position (local to its parent)
    cameraParent,     \* the object camera was added to
    controlsEnabled,  \* controls.enabled
    hands,            \* hands[i].userData
    lastT,            \* let lastT = performance.now()
    frames,           \* number of frame callbacks so far
    seenPinch,        \* pinch flags read by the latest updateXROrbit
    last              \* log of the latest render-loop / session step

vars == << presenting, spherical, rig, cameraPosition, cameraParent,
           controlsEnabled, hands, lastT, frames, seenPinch, last >>

Left  == 0
Right == 1

NoLog(kind) ==
    [kind |-> kind, elapsed |-> 0, dt |-> 0, srcs |-> <<>>,
     pre |-> spherical, pads |-> spherical, raw |-> spherical,
     fired |-> {}, pinch |-> <<FALSE, FALSE>>, prevPinch |-> seenPinch,
     firstSeen |-> <<FALSE, FALSE>>,
     lastAt |-> <<ZeroVec, ZeroVec>>, curr |-> <<ZeroVec, ZeroVec>>]

\* the state once the module has run top to bottom
Init ==
    /\ presenting = FALSE
    /\ spherical = syncSpherical(CameraLoadPosition)
    /\ rig = [position |-> ZeroVec, lookAt |-> NoLookAt]
    /\ cameraPosition = CameraLoadPosition
    /\ cameraParent = "rig"
    /\ controlsEnabled = TRUE
    /\ hands = [i \in {Left, Right} |->
                  [isPinching |-> FALSE, init |-> FALSE,
                   lastPos |-> ZeroVec, currPos |-> ZeroVec]]
    /\ lastT = 0
    /\ frames = 0
    /\ seenPinch = <<FALSE, FALSE>>
    /\ last = [kind |-> "load", elapsed |-> 0, dt |-> 0, srcs |-> <<>>,
               pre |-> syncSpherical(CameraLoadPosition),
               pads |-> syncSpherical(CameraLoadPosition),
               raw |-> syncSpherical(CameraLoadPosition),
               fired |-> {}, pinch |-> <<FALSE, FALSE>>,
               prevPinch |-> <<FALSE, FALSE>>, firstSeen |-> <<FALSE, FALSE>>,
               lastAt |-> <<ZeroVec, ZeroVec>>, curr |-> <<ZeroVec, ZeroVec>>]

\* ------------------------------------------------ gamepad contribution
\* axes[i] ?? dflt  (i is the JavaScript index)
AxisOr(axes, i, dflt) == IF i + 1 <= Len(axes) THEN axes[i + 1] ELSE dflt

\* const lx = (gp.axes[2] ?? gp.axes[0] ?? 0)
StickX(axes) == AxisOr(axes, 2, AxisOr(axes, 0, 0))

\* const ly = (gp.axes[3] ?? gp.axes[1] ?? 0)
StickY(axes) == AxisOr(axes, 3, AxisOr(axes, 1, 0))

\* mutant of DollyAxis: the dolly is read from axes[3]
DollyAxisRightStick(axes) == AxisOr(axes, 3, 0)

\* const ry = (gp.axes[1] ?? 0)
DollyAxis(axes) == AxisOr(axes, 1, 0)

\* the body of session.inputSources.forEach for one source with a gamepad:
\*   theta  -= lx * orbitSpeed * dt
\*   phi    -= ly * orbitSpeed * dt * 0.8
\*   radius += -ry * dollySpeed * dt * 0.6
GamepadStep(s, axes, dt) ==
    [radius |-> s.radius - DollyAxis(axes) * dollySpeed * dt * 60,
     phi    |-> s.phi    - StickY(axes) * orbitSpeedTenths * dt * 8,
     theta  |-> s.theta  - StickX(axes) * orbitSpeedTenths * dt * 10]

\* one source of the forEach: if (!gp) return;
SourceStep(s, src, dt) ==
    IF src.hasGamepad THEN GamepadStep(s, src.axes, dt) ELSE s

RECURSIVE GamepadLoopStopAtMissing(_, _, _)
\* mutant of GamepadLoop: a source without a gamepad ends the loop
GamepadLoopStopAtMissing(s, srcs, dt) ==
    IF srcs = <<>> \/ ~Head(srcs).hasGamepad THEN s
    ELSE GamepadLoopStopAtMissing(SourceStep(s, Head(srcs), dt), Tail(srcs), dt)

RECURSIVE GamepadLoop(_, _, _)
\* session.inputSources.forEach(...)
GamepadLoop(s, srcs, dt) ==
    IF srcs = <<>> THEN s
    ELSE GamepadLoop(SourceStep(s, Head(srcs), dt), Tail(srcs), dt)

\* --------------------------------------------------- hand contribution
\* [left, right].forEach: read the world position, seed lastPos once
HandObserve(h, pos) ==
    [h EXCEPT !.currPos = pos,
              !.lastPos = IF h.init THEN h.lastPos ELSE pos,
              !.init    = TRUE]

\* mutant of OneHandPinch: || in place of ^
OneHandPinchEither(leftPinch, rightPinch) == leftPinch \/ rightPinch

\* if (leftPinch ^ rightPinch)
OneHandPinch(leftPinch, rightPinch) == leftPinch # rightPinch

\* if (leftPinch && rightPinch)
TwoHandPinch(leftPinch, rightPinch) == leftPinch /\ rightPinch

\* one-hand pinch = orbit: theta -= delta.x * 1.2, phi -= delta.y * 1.2
OrbitGesture(s, h) ==
    LET delta == SubVectors(h.currPos, h.lastPos)
    IN  [s EXCEPT !.theta = s.theta - delta[1] * 12 * (OrbitUnit \div (10 * MmPerM)),
                  !.phi   = s.phi   - delta[2] * 12 * (OrbitUnit \div (10 * MmPerM))]

\* two-hand pinch = dolly: radius += (avg.z - lastAvg.z) * 10.0, the averages
\* being (left + right) * 0.5
DollyGesture(s, l, r) ==
    LET avg2     == AddVectors(l.currPos, r.currPos)
        lastAvg2 == AddVectors(l.lastPos, r.lastPos)
    IN  [s EXCEPT !.radius = s.radius
                     + (avg2[3] - lastAvg2[3]) * 10 * (OrbitUnit \div (2 * MmPerM))]

\* h.userData.lastPos.copy(h.userData.currPos)
CopyLast(h) == [h EXCEPT !.lastPos = h.currPos]

\* updateXROrbit(dt) with a session: gamepads, hands, applySphericalToRig
updateXROrbit(s, hs, srcs, poses, dt) ==
    LET leftPinch  == hs[Left].isPinching
        rightPinch == hs[Right].isPinching
        pads  == GamepadLoop(s, srcs, dt)
        left  == HandObserve(hs[Left],  poses[1])
        right == HandObserve(hs[Right], poses[2])
        one   == OneHandPinch(leftPinch, rightPinch)
        two   == TwoHandPinch(leftPinch, rightPinch)
        h1    == IF leftPinch THEN left ELSE right
        s1    == IF one THEN OrbitGesture(pads, h1) ELSE pads
        left1  == IF one /\ leftPinch  THEN CopyLast(left)  ELSE left
        right1 == IF one /\ ~leftPinch THEN CopyLast(right) ELSE right
        s2    == IF two THEN DollyGesture(s1, left1, right1) ELSE s1
        left2  == IF two THEN CopyLast(left1)  ELSE left1
        right2 == IF two THEN CopyLast(right1) ELSE right1
        out   == applySphericalToRig(s2)
    IN  [spherical |-> out.spherical,
         rig       |-> out.rig,
         hands     |-> (Left :> left2) @@ (Right :> right2),
         pads      |-> pads,
         raw       |-> s2,
         fired     |-> (IF one THEN {"orbit"} ELSE {}) \cup (IF two THEN {"dolly"} ELSE {}),
         pinch     |-> <<leftPinch, rightPinch>>,
         firstSeen |-> <<~hs[Left].init, ~hs[Right].init>>,
         lastAt    |-> <<left.lastPos, right.lastPos>>,
         curr      |-> <<left.currPos, right.currPos>>]

\* -------------------------------------------------------- render loop
\* mutant of FrameDt: the cap is left out
FrameDtUncapped(now, prev) == now - prev

\* const dt = Math.min(0.05, (now - lastT) / 1000), in ms
FrameDt(now, prev) == Min(dtCapMs, now - prev)

\* the animation-loop callback while renderer.xr.isPresenting
XRFrame ==
    /\ presenting
    /\ frames < MaxFrames
    /\ \E gap \in FrameGaps, srcs \in InputSourceLists,
          poses \in HandPoses, head \in HeadPoses :
         LET now == lastT + gap
             dt  == FrameDt(now, lastT)
         IN  \E u \in {updateXROrbit(spherical, hands, srcs, poses, dt)} :
             /\ lastT' = now
             /\ spherical' = u.spherical
             /\ rig' = u.rig
             /\ hands' = u.hands
             /\ cameraPosition' = head
             /\ seenPinch' = u.pinch
             /\ last' = [kind |-> "xr", elapsed |-> now - lastT, dt |-> dt, srcs |-> srcs,
                         pre |-> spherical, pads |-> u.pads, raw |-> u.raw,
                         fired |-> u.fired, pinch |-> u.pinch,
                         prevPinch |-> seenPinch, firstSeen |-> u.firstSeen,
                         lastAt |-> u.lastAt, curr |-> u.curr]
    /\ frames' = frames + 1
    /\ UNCHANGED << presenting, cameraParent, controlsEnabled >>

\* controls.update(): OrbitControls moves the camera where the pointer drags
\* since the last update ask for, when it is enabled
ControlsUpdate(pos, drag) ==
    IF controlsEnabled /\ drag # NoDrag THEN drag ELSE pos

\* the animation-loop callback on the desktop
DesktopFrame ==
    /\ ~presenting
    /\ frames < MaxFrames
    /\ \E gap \in FrameGaps, drag \in DragPositions \cup {NoDrag} :
         LET now == lastT + gap
         IN  /\ lastT' = now
             /\ last' = [NoLog("desktop") EXCEPT !.elapsed = now - lastT,
                                                 !.dt = FrameDt(now, lastT)]
             /\ cameraPosition' = ControlsUpdate(cameraPosition, drag)
    /\ frames' = frames + 1
    /\ UNCHANGED << presenting, spherical, rig, cameraParent, controlsEnabled,
                    hands, seenPinch >>

\* ------------------------------------------------------------- events
\* the XR button starts an immersive session
SessionStart ==
    /\ ~presenting
    /\ presenting' = TRUE
    /\ last' = NoLog("sessionstart")
    /\ UNCHANGED << spherical, rig, cameraPosition, cameraParent, controlsEnabled,
                    hands, lastT, frames, seenPinch >>

\* the immersive session ends
SessionEnd ==
    /\ presenting
    /\ presenting' = FALSE
    /\ last' = NoLog("sessionend")
    /\ UNCHANGED << spherical, rig, cameraPosition, cameraParent, controlsEnabled,
                    hands, lastT, frames, seenPinch >>

\* h.addEventListener('pinchstart', () => (h.userData.isPinching = true))
PinchStart(i) ==
    /\ presenting
    /\ ~hands[i].isPinching
    /\ hands' = [hands EXCEPT ![i].isPinching = TRUE]
    /\ UNCHANGED << presenting, spherical, rig, cameraPosition, cameraParent,
                    controlsEnabled, lastT, frames, seenPinch, last >>

\* h.addEventListener('pinchend', () => (h.userData.isPinching = false))
PinchEnd(i) ==
    /\ presenting
    /\ hands[i].isPinching
    /\ hands' = [hands EXCEPT ![i].isPinching = FALSE]
    /\ UNCHANGED << presenting, spherical, rig, cameraPosition, cameraParent,
                    controlsEnabled, lastT, frames, seenPinch, last >>

PinchStartLeft  == PinchStart(Left)
PinchStartRight == PinchStart(Right)
PinchEndLeft    == PinchEnd(Left)
PinchEndRight   == PinchEnd(Right)

Next ==
    \/ XRFrame
    \/ DesktopFrame
    \/ SessionStart
    \/ SessionEnd
    \/ PinchStartLeft
    \/ PinchStartRight
    \/ PinchEndLeft
    \/ PinchEndRight

Spec == Init /\ [][Next]_vars

\* =============================================================== claims
InRange(s) ==
    /\ minRadius <= s.radius /\ s.radius <= maxRadius
    /\ minPhi <= s.phi /\ s.phi <= maxPhi

Near(a, b, tol) == \A k \in 1..3 : Abs(a[k] - b[k]) <= tol

NoPinch == ~last.pinch[1] /\ ~last.pinch[2]

\* the seed computed when the module loaded
LoadSeed == syncSpherical(CameraLoadPosition)

\* C1 - clamp invariant: once applySphericalToRig has run, radius is in
\* [minRadius, maxRadius], phi in [minPhi, maxPhi], whatever the frame's inputs
\* were, and the rig position is the projection of the clamped state.
C1_ClampInvariant ==
    rig.lookAt # NoLookAt =>
        /\ InRange(spherical)
        /\ rig.position = AddVectors(SetFromSpherical(spherical), target)
        /\ last.kind = "xr" =>
             /\ spherical.theta = last.raw.theta
             /\ InRange(last.raw) => spherical = last.raw

\* a frame whose raw update left the range and was clamped back
C1_Witness ==
    /\ last.kind = "xr"
    /\ last.raw.phi < minPhi
    /\ spherical.phi = minPhi
    /\ rig.lookAt = target

\* C2 - gesture exclusivity: per frame at most one hand-gesture branch fires;
\* exactly one hand pinching fires only the orbit branch (radius untouched by
\* the hands), both pinching fires only the dolly branch (theta and phi
\* untouched by the hands), none pinching fires nothing.
C2_GestureExclusivity ==
    last.kind = "xr" =>
        /\ Cardinality(last.fired) <= 1
        /\ (last.pinch[1] # last.pinch[2]) =>
              /\ last.fired = {"orbit"}
              /\ last.raw.radius = last.pads.radius
        /\ (last.pinch[1] /\ last.pinch[2]) =>
              /\ last.fired = {"dolly"}
              /\ last.raw.theta = last.pads.theta
              /\ last.raw.phi = last.pads.phi
        /\ NoPinch =>
              /\ last.fired = {}
              /\ last.raw = last.pads

\* both hands pinching and moving: the dolly branch acted
C2_Witness ==
    /\ last.kind = "xr"
    /\ last.pinch[1] /\ last.pinch[2]
    /\ last.raw.radius # last.pads.radius

\* the orbit axes of every gamepad of the frame are within the dead zone
AllWithinDeadZone(srcs) ==
    \A k \in 1..Len(srcs) :
        srcs[k].hasGamepad =>
            /\ Abs(StickX(srcs[k].axes)) * 100 <= 5 * AxisUnit
            /\ Abs(StickY(srcs[k].axes)) * 100 <= 5 * AxisUnit

\* C3 - dead zone: a frame in which every orbit axis has magnitude <= 0.05
\* (and no hand pinches) leaves theta and phi unchanged for any dt.
C3_DeadZone ==
    (last.kind = "xr" /\ NoPinch /\ AllWithinDeadZone(last.srcs)) =>
        /\ spherical.theta = last.pre.theta
        /\ spherical.phi = last.pre.phi

\* C4 - seed on mode entry: when the mode changes from Desktop to Immersive the
\* orbit state equals the spherical coordinates of (camera world position -
\* pivot).
C4_SeedOnEntry ==
    last.kind = "sessionstart" =>
        spherical = syncSpherical(CameraWorldPosition(rig, cameraPosition))

\* C5 - mode consistency: in Immersive the camera is parented under the rig and
\* desktop navigation is disabled; in Desktop the camera is parented to the
\* scene and desktop navigation is enabled.
C5_ModeConsistency ==
    /\ presenting  => (cameraParent = "rig" /\ ~controlsEnabled)
    /\ ~presenting => (cameraParent = "scene" /\ controlsEnabled)

C7_HandoffRadiusEleven ==
    rig.lookAt = NoLookAt =>
        /\ Abs(spherical.radius - 11 * OrbitUnit) * 20 <= OrbitUnit
        /\ Near(applySphericalToRig(spherical).rig.position, CameraLoadPosition, TolMm)

\* C7 amended - the seed from camera (-5,5,12) and pivot (-1,2,0) has radius
\* |(-4,3,12)| = 13; it lies inside the clamp range, so the first immersive
\* frame without input leaves it unchanged and puts the rig at the camera's
\* original position.
C7_HandoffRadiusThirteen ==
    /\ rig.lookAt = NoLookAt =>
          /\ spherical.radius = 13 * OrbitUnit
          /\ spherical = LoadSeed
    /\ (last.kind = "xr" /\ last.raw = last.pre /\ last.pre = LoadSeed) =>
          /\ spherical.radius = 13 * OrbitUnit
          /\ spherical = last.pre
          /\ Near(rig.position, CameraLoadPosition, TolMm)

\* the first immersive frame, with no input, applied the seed to the rig
C7_Witness ==
    /\ last.kind = "xr"
    /\ frames = 1
    /\ last.raw = last.pre
    /\ last.pre = LoadSeed
    /\ rig.lookAt = target

\* a frame with exactly one input source, which has a gamepad, and no pinch
OneGamepadFrame ==
    /\ last.kind = "xr"
    /\ NoPinch
    /\ Len(last.srcs) = 1
    /\ last.srcs[1].hasGamepad

\* every axis of the gamepad other than the dolly axis axes[1] reads zero
OnlyDollyAxis(axes) ==
    /\ Len(axes) >= 2
    /\ \A k \in 1..Len(axes) : k # 2 => axes[k] = 0

\* radius after a dolly of d (AxisUnit) over dt (ms), clamped
DolliedRadius(r, d, dt) ==
    Clamp(r - d * dollySpeed * dt * 6 * (OrbitUnit \div (AxisUnit * 1000 * 10)),
          minRadius, maxRadius)

C9_NoJumpOnGestureStart ==
    last.kind = "xr" =>
        \A h \in 1..2 :
            /\ (last.pinch[h] /\ ~last.prevPinch[h]) => last.lastAt[h] = last.curr[h]
            /\ last.firstSeen[h] => last.lastAt[h] = last.curr[h]

Orderings(n) == { f \in [1..n -> 1..n] : \A i, j \in 1..n : f[i] = f[j] => i = j }

Permuted(seq, f) == [k \in 1..Len(seq) |-> seq[f[k]]]

WithGamepad(src) == src.hasGamepad

RECURSIVE SumAxis(_, _, _)
\* the sum over the sources with a gamepad of Op(axes)
SumAxis(Op(_), srcs, k) ==
    IF k > Len(srcs) THEN 0
    ELSE (IF srcs[k].hasGamepad THEN Op(srcs[k].axes) ELSE 0) + SumAxis(Op, srcs, k + 1)

\* C10 - additive multi-controller input: every source with a gamepad adds its
\* own theta, phi and radius delta, the deltas sum, clamping happens once after
\* all of them; so the result is the same for every enumeration order, and a
\* source without a gamepad contributes nothing.
C10_AdditiveSources ==
    last.kind = "xr" =>
        /\ \A f \in Orderings(Len(last.srcs)) :
              GamepadLoop(last.pre, Permuted(last.srcs, f), last.dt) = last.pads
        /\ GamepadLoop(last.pre, SelectSeq(last.srcs, WithGamepad), last.dt) = last.pads
        /\ last.pads.theta = last.pre.theta
              - SumAxis(StickX, last.srcs, 1) * orbitSpeedTenths * last.dt * 10
        /\ last.pads.phi = last.pre.phi
              - SumAxis(StickY, last.srcs, 1) * orbitSpeedTenths * last.dt * 8
        /\ last.pads.radius = last.pre.radius
              - SumAxis(DollyAxis, last.srcs, 1) * dollySpeed * last.dt * 60
        /\ NoPinch =>
              /\ spherical.radius = Clamp(last.pads.radius, minRadius, maxRadius)
              /\ spherical.phi = Clamp(last.pads.phi, minPhi, maxPhi)
              /\ spherical.theta = last.pads.theta

\* two gamepads and a source without one contributed in the same frame
C10_Witness ==
    /\ last.kind = "xr"
    /\ Len(SelectSeq(last.srcs, WithGamepad)) >= 2
    /\ Len(SelectSeq(last.srcs, WithGamepad)) < Len(last.srcs)
    /\ last.dt > 0
    /\ last.pads.theta # last.pre.theta
    /\ last.pads.radius # last.pre.radius

====
